---- MODULE Spec2Model ----
(***************************************************************************)
(* The Fibonacci demo of pybryt: the reference notebook (hash-map and      *)
(* dynamic-programming `fibonacci`, their print and timing loops, the      *)
(* annotation lists) and the submission notebook subm01 (hash-map          *)
(* `fibonacci`).  Execution is single-threaded; every function activation  *)
(* is a frame on a call stack and every action is one step of the frame on *)
(* top, or one step of the caller (a notebook cell or a free caller).      *)
(*                                                                         *)
(* A session has one caller, fixed when it starts:                         *)
(*   "notebook"  the reference notebook's cells 1-12 in order, then the    *)
(*               submission notebook's code cells in order;                *)
(*   "calls"     any calls fibonacci(n, track) of the reference hash-map   *)
(*               function, each repeated on the submission's function;     *)
(*   "sweep"     the same for n = 0, 1, 2, ... in increasing order;        *)
(*   "range"     a few calls fibonacci(n) of the reference hash-map        *)
(*               function with n anywhere in range(30);                    *)
(*   "dyn"       any calls of the dynamic-programming function;            *)
(*   "wide"      one call of the dynamic-programming function, n large.    *)
(***************************************************************************)
EXTENDS Integers, Sequences, FiniteSets, TLC

\* ------------------------------------------------------------- bounds
\* Largest argument of a freely chosen call.
MaxN == 6
\* Largest argument of the single dynamic-programming call of the wide caller.
MaxWide == 94
\* Tracked dynamic-programming calls a free caller makes in one session.
MaxAnnots == 2
\* Calls the caller makes whose arguments range over all of range(30).
MaxCalls == 2
\* Largest argument of the caller that sweeps 0, 1, 2, ... in increasing order.
MaxSweep == 8

\* ------------------------------------------------- program constants
\* range(10) of the print loops, range(30) of the timing loops.
PrintTerms == 10
TimeTerms == 30

\* --------------------------------------------------------- arithmetic
\* numpy's dtype=int is a 64-bit two's-complement machine integer.  It is
\* kept as four 16-bit limbs, least significant first, so that every sum
\* is computed exactly and wraps modulo 2^64 as the hardware does.
Base == 2^16
Half == 2^15
Int64 == [1..4 -> 0..(Base - 1)]
Zero64 == <<0, 0, 0, 0>>
One64 == <<1, 0, 0, 0>>

\* a + b on int64 scalars: limb-wise with carry, the carry out of the top
\* limb dropped.
Add64(a, b) ==
    LET s1 == a[1] + b[1]
        s2 == a[2] + b[2] + (s1 \div Base)
        s3 == a[3] + b[3] + (s2 \div Base)
        s4 == a[4] + b[4] + (s3 \div Base)
    IN  <<s1 % Base, s2 % Base, s3 % Base, s4 % Base>>

\* Mathematical integers too large for a machine word: sign and magnitude,
\* the magnitude as five 16-bit limbs (80 bits), least significant first.
BigZero == [neg |-> FALSE, mag |-> <<0, 0, 0, 0, 0>>]
BigOne == [neg |-> FALSE, mag |-> <<1, 0, 0, 0, 0>>]
AddBig(x, y) ==
    LET a == x.mag
        b == y.mag
        s1 == a[1] + b[1]
        s2 == a[2] + b[2] + (s1 \div Base)
        s3 == a[3] + b[3] + (s2 \div Base)
        s4 == a[4] + b[4] + (s3 \div Base)
        s5 == a[5] + b[5] + (s4 \div Base)
    IN  [neg |-> FALSE,
         mag |-> <<s1 % Base, s2 % Base, s3 % Base, s4 % Base, s5 % Base>>]

\* The integer an int64 bit pattern denotes (what print shows): patterns
\* with the top bit set denote pattern - 2^64.
Neg64(v) ==
    LET inv == [k \in 1..4 |-> (Base - 1) - v[k]]
    IN  Add64(inv, One64)
Int64ToBig(v) ==
    IF v[4] >= Half
    THEN LET m == Neg64(v) IN [neg |-> TRUE, mag |-> <<m[1], m[2], m[3], m[4], 0>>]
    ELSE [neg |-> FALSE, mag |-> <<v[1], v[2], v[3], v[4], 0>>]

\* Small values as TLA+ integers (below 2^31).
BigToInt(x) ==
    IF x.neg THEN 0 - (x.mag[1] + x.mag[2] * Base) ELSE x.mag[1] + x.mag[2] * Base
Int64ToInt(v) == BigToInt(Int64ToBig(v))

\* The canonical Fibonacci numbers F(0) = 0, F(1) = 1, F(n) = F(n-1) + F(n-2).
RECURSIVE FibTableFrom(_, _)
FibTableFrom(t, n) ==
    IF Len(t) > n THEN t
    ELSE FibTableFrom(Append(t, AddBig(t[Len(t)], t[Len(t) - 1])), n)
FibTable == FibTableFrom(<<BigZero, BigOne>>, MaxWide + 2)
\* F(n) as a mathematical integer, and (for n <= 46) as a TLA+ integer.
FibBig(n) == FibTable[n + 1]
Fib(n) == BigToInt(FibBig(n))

\* -------------------------------------------------------------- state
VARIABLES
    driver,         \* who calls: "calls", "range", "sweep", "dyn", "wide", "notebook"
    caller,         \* the caller's position: [book, cell, n, total]
    fibonacci,      \* what the reference kernel's global name `fibonacci` is bound to
    fibs,           \* the reference notebook's global dict `fibs`
    map_annots,     \* the reference notebook's list map_annots
    dyn_annots,     \* the reference notebook's list dyn_annots
    not_recursive,  \* the reference notebook's global not_recursive (a list of 0 or 1)
    refs,           \* the ReferenceImplementation objects of the last cell
    stack,          \* activations of the reference hash-map fibonacci, innermost last
    dyn,            \* the activation of the dynamic-programming fibonacci (0 or 1)
    sub_fibs,       \* the submission notebook's global dict `fibs`
    sub_stack,      \* activations of the submission's fibonacci, innermost last
    call,           \* the top-level call in progress, or the idle record
    last,           \* per implementation, the previous completed top-level call
    outputs,        \* what each printing cell has written
    timed,          \* the samples bracketed by check_time_complexity
    writes,         \* history: how often each key of `fibs` has been assigned
    sub_hist        \* history: the successive values of the submission's dict

vars ==
    <<driver, caller, fibonacci, fibs, map_annots, dyn_annots, not_recursive, refs,
      stack, dyn, sub_fibs, sub_stack, call, last, outputs, timed, writes, sub_hist>>

Drivers == {"calls", "range", "sweep", "dyn", "wide", "notebook"}

\* A dict, as a function on its keys.
EmptyDict == <<>>
\* (a variant that rebinds the dict to the one new entry)
PutAlone(d, k, v) == [i \in {k} |-> v]
\* d[k] = v.
Put(d, k, v) == [i \in (DOMAIN d) \cup {k} |-> IF i = k THEN v ELSE d[i]]

\* pybryt.Value(v, name=...): the annotation keeps a copy of v as it is now.
Value(v, name) == [kind |-> "value", name |-> name, value |-> v]
\* pybryt.TimeComplexity(cplx.linear, name=...).
TimeComplexity(name) == [kind |-> "time_complexity", name |-> name, value |-> "linear"]
\* a | b on annotations.
OrAnnotation(a, b) == [kind |-> "or", name |-> "", value |-> <<a, b>>]
\* pybryt.ReferenceImplementation(name, annotations).
ReferenceImplementation(name, annots) == [name |-> name, annotations |-> annots]

IdleCall ==
    [status |-> "idle", impl |-> "none", n |-> 0, track |-> FALSE, ret |-> 0,
     fibs0 |-> EmptyDict, annots0 |-> <<>>, nested |-> 0, depth |-> 0, again |-> FALSE]
NoLast == [n |-> -1, ret |-> 0, nested |-> 0]

\* Nothing has run in a notebook session.  The other sessions start in a
\* kernel in which the cells that define the function called have run (cells
\* 1 and 2, or 1 and 6, of the reference; cells 1 and 2 of the submission).
Init ==
    /\ driver \in Drivers
    /\ caller = [book |-> "ref", cell |-> 1, n |-> 0, total |-> 0]
    /\ fibonacci = CASE driver \in {"calls", "range", "sweep"} -> "hash_map"
                     [] driver \in {"dyn", "wide"} -> "dynamic"
                     [] OTHER -> "unbound"
    /\ fibs = EmptyDict
    /\ map_annots = <<>>
    /\ dyn_annots = <<>>
    /\ not_recursive = <<>>
    /\ refs = <<>>
    /\ stack = <<>>
    /\ dyn = <<>>
    /\ sub_fibs = EmptyDict
    /\ sub_stack = <<>>
    /\ call = IdleCall
    /\ last = [map |-> NoLast, dyn |-> NoLast, sub |-> NoLast]
    /\ outputs = [ref3 |-> <<>>, ref7 |-> <<>>, ref10 |-> <<>>, sub3 |-> <<>>]
    /\ timed = <<>>
    /\ writes = EmptyDict
    /\ sub_hist = <<EmptyDict>>

\* ---------------------------------------- calling and returning, top level
\* The frame a call of the hash-map fibonacci (either notebook's) starts in.
MapFrame(n, track) == [n |-> n, track |-> track, pc |-> "entry", a |-> 0, f |-> 0]
\* The frame a call of the dynamic-programming fibonacci starts in; wlog and
\* rlog record the buffer indices it writes (in order) and reads.
DynFrame(n, track) ==
    [n |-> n, track |-> track, pc |-> "alloc", i |-> 0, fibs |-> <<>>,
     wlog |-> <<>>, rlog |-> {}]

\* A top-level call impl(n, track) from a cell or a free caller.
StartCall(impl, n, track) ==
    /\ call.status = "idle"
    /\ call' = [status |-> "running", impl |-> impl, n |-> n, track |-> track,
                ret |-> 0,
                fibs0 |-> IF impl = "sub" THEN sub_fibs ELSE fibs,
                annots0 |-> IF impl = "dyn" THEN dyn_annots ELSE map_annots,
                nested |-> 0, depth |-> 0, again |-> (last[impl].n = n)]
    /\ stack' = IF impl = "map" THEN <<MapFrame(n, track)>> ELSE stack
    /\ dyn' = IF impl = "dyn" THEN <<DynFrame(n, track)>> ELSE dyn
    /\ sub_stack' = IF impl = "sub" THEN <<MapFrame(n, FALSE)>> ELSE sub_stack

\* fibonacci(n, track) evaluated in the reference kernel: whichever function
\* the name is bound to when the call is made.
RefCall(n, track) ==
    /\ fibonacci # "unbound"
    /\ StartCall(IF fibonacci = "hash_map" THEN "map" ELSE "dyn", n, track)

\* The caller takes the returned value; the call is over.
EndCall ==
    /\ call.status = "returned"
    /\ last' = [last EXCEPT ![call.impl] =
                   [n |-> call.n, ret |-> call.ret, nested |-> call.nested]]
    /\ call' = IdleCall

\* ------------------------- reference notebook: hash-map fibonacci(n, track)
Top(st) == st[Len(st)]
Max(x, y) == IF x >= y THEN x ELSE y

\* `return v` of the innermost activation on call stack st: the value goes to
\* the activation that called it, which waits in the sum of line 69 for its
\* left or right operand, or to the top-level caller.
ReturnTo(st, v) ==
    LET k == Len(st) - 1
    IN  IF k = 0 THEN <<>>
        ELSE [SubSeq(st, 1, k) EXCEPT
                 ![k] = IF st[k].pc = "wait1"
                        THEN [st[k] EXCEPT !.a = v, !.pc = "second"]
                        ELSE [st[k] EXCEPT !.f = st[k].a + v, !.pc = "store"]]
Returned(st, v) ==
    IF Len(st) = 1 THEN [call EXCEPT !.status = "returned", !.ret = v] ELSE call

\* A nested call fibonacci(m) made by the innermost activation of st, which
\* then waits at pc `wait`.  The call names no track: it takes the default.
Nested(st, m, wait, track) ==
    Append([st EXCEPT ![Len(st)] = [Top(st) EXCEPT !.pc = wait]], MapFrame(m, track))
Counted(st) ==
    [call EXCEPT !.nested = call.nested + 1, !.depth = Max(call.depth, Len(st))]

\* (a variant whose parameter defaults to False)
TrackOff == FALSE
\* The default of the parameter track (def fibonacci(n, track=True)).
TrackDefault == TRUE

\* (a variant that never finds a key: the dict is not consulted)
CachedNever(n, d) == FALSE
\* The test `n in fibs` of either hash-map fibonacci.
Cached(n, d) == n \in DOMAIN d

\* Lines 63-69: the base cases, the cache hit, or else the call fibonacci(n-1).
MapEntry ==
    /\ stack # <<>>
    /\ Top(stack).pc = "entry"
    /\ LET n == Top(stack).n
       IN  IF n = 0 THEN /\ stack' = ReturnTo(stack, 0)
                         /\ call' = Returned(stack, 0)
           ELSE IF n = 1 THEN /\ stack' = ReturnTo(stack, 1)
                              /\ call' = Returned(stack, 1)
           ELSE IF Cached(n, fibs) THEN /\ stack' = ReturnTo(stack, fibs[n])
                                          /\ call' = Returned(stack, fibs[n])
           ELSE /\ fibonacci = "hash_map"
                /\ stack' = Nested(stack, n - 1, "wait1", TrackDefault)
                /\ call' = Counted(stack)
    /\ UNCHANGED <<driver, caller, fibonacci, fibs, map_annots, dyn_annots,
                   not_recursive, refs, dyn, sub_fibs, sub_stack, last, outputs,
                   timed, writes, sub_hist>>

\* Line 69, right operand: the call fibonacci(n-2).
MapSecond ==
    /\ stack # <<>>
    /\ Top(stack).pc = "second"
    /\ fibonacci = "hash_map"
    /\ stack' = Nested(stack, Top(stack).n - 2, "wait2", TrackDefault)
    /\ call' = Counted(stack)
    /\ UNCHANGED <<driver, caller, fibonacci, fibs, map_annots, dyn_annots,
                   not_recursive, refs, dyn, sub_fibs, sub_stack, last, outputs,
                   timed, writes, sub_hist>>

\* (a variant that omits the assignment of line 70)
MapStoreSkipped ==
    /\ stack # <<>>
    /\ Top(stack).pc = "store"
    /\ stack' = [stack EXCEPT ![Len(stack)] = [Top(stack) EXCEPT !.pc = "track"]]
    /\ UNCHANGED <<driver, caller, fibonacci, fibs, map_annots, dyn_annots,
                   not_recursive, refs, dyn, sub_fibs, sub_stack, call, last, outputs,
                   timed, writes, sub_hist>>

\* Line 70: fibs[n] = f.
MapStore ==
    /\ stack # <<>>
    /\ Top(stack).pc = "store"
    /\ LET fr == Top(stack)
       IN  /\ fibs' = Put(fibs, fr.n, fr.f)
           /\ writes' = Put(writes, fr.n,
                            IF fr.n \in DOMAIN writes THEN writes[fr.n] + 1 ELSE 1)
           /\ stack' = [stack EXCEPT ![Len(stack)] = [fr EXCEPT !.pc = "track"]]
    /\ UNCHANGED <<driver, caller, fibonacci, map_annots, dyn_annots, not_recursive,
                   refs, dyn, sub_fibs, sub_stack, call, last, outputs, timed,
                   sub_hist>>

\* Lines 71-73: if track, append a value annotation of fibs; return f.
MapTrack ==
    /\ stack # <<>>
    /\ Top(stack).pc = "track"
    /\ LET fr == Top(stack)
       IN  /\ map_annots' = IF fr.track
                            THEN Append(map_annots, Value(fibs, "hash_map"))
                            ELSE map_annots
           /\ stack' = ReturnTo(stack, fr.f)
           /\ call' = Returned(stack, fr.f)
    /\ UNCHANGED <<driver, caller, fibonacci, fibs, dyn_annots, not_recursive, refs,
                   dyn, sub_fibs, sub_stack, last, outputs, timed, writes, sub_hist>>

\* ------------------------------- submission notebook: hash-map fibonacci(n)
\* Lines 58-64: the base cases, the cache hit, or else the call fibonacci(n-1).
SubEntry ==
    /\ sub_stack # <<>>
    /\ Top(sub_stack).pc = "entry"
    /\ LET n == Top(sub_stack).n
       IN  IF n = 0 THEN /\ sub_stack' = ReturnTo(sub_stack, 0)
                         /\ call' = Returned(sub_stack, 0)
           ELSE IF n = 1 THEN /\ sub_stack' = ReturnTo(sub_stack, 1)
                              /\ call' = Returned(sub_stack, 1)
           ELSE IF Cached(n, sub_fibs)
                THEN /\ sub_stack' = ReturnTo(sub_stack, sub_fibs[n])
                     /\ call' = Returned(sub_stack, sub_fibs[n])
           ELSE /\ sub_stack' = Nested(sub_stack, n - 1, "wait1", FALSE)
                /\ call' = Counted(sub_stack)
    /\ UNCHANGED <<driver, caller, fibonacci, fibs, map_annots, dyn_annots,
                   not_recursive, refs, stack, dyn, sub_fibs, last, outputs, timed,
                   writes, sub_hist>>

\* (a variant whose right operand is fibonacci(n-1) again)
SubSecondSame ==
    /\ sub_stack # <<>>
    /\ Top(sub_stack).pc = "second"
    /\ sub_stack' = Nested(sub_stack, Top(sub_stack).n - 1, "wait2", FALSE)
    /\ call' = Counted(sub_stack)
    /\ UNCHANGED <<driver, caller, fibonacci, fibs, map_annots, dyn_annots,
                   not_recursive, refs, stack, dyn, sub_fibs, last, outputs, timed,
                   writes, sub_hist>>

\* Line 64, right operand: the call fibonacci(n-2).
SubSecond ==
    /\ sub_stack # <<>>
    /\ Top(sub_stack).pc = "second"
    /\ sub_stack' = Nested(sub_stack, Top(sub_stack).n - 2, "wait2", FALSE)
    /\ call' = Counted(sub_stack)
    /\ UNCHANGED <<driver, caller, fibonacci, fibs, map_annots, dyn_annots,
                   not_recursive, refs, stack, dyn, sub_fibs, last, outputs, timed,
                   writes, sub_hist>>

\* Lines 65-66: fibs[n] = f; return f.
SubStore ==
    /\ sub_stack # <<>>
    /\ Top(sub_stack).pc = "store"
    /\ LET fr == Top(sub_stack)
       IN  /\ sub_fibs' = Put(sub_fibs, fr.n, fr.f)
           /\ sub_hist' = Append(sub_hist, Put(sub_fibs, fr.n, fr.f))
           /\ sub_stack' = ReturnTo(sub_stack, fr.f)
           /\ call' = Returned(sub_stack, fr.f)
    /\ UNCHANGED <<driver, caller, fibonacci, fibs, map_annots, dyn_annots,
                   not_recursive, refs, stack, dyn, last, outputs, timed, writes>>

\* ----------------- reference notebook: dynamic-programming fibonacci(n, track)
\* Line 157: fibs = np.zeros(n + 1, dtype=int).
DynAlloc ==
    /\ dyn # <<>>
    /\ dyn[1].pc = "alloc"
    /\ dyn' = <<[dyn[1] EXCEPT !.fibs = [k \in 0..dyn[1].n |-> Zero64],
                                !.pc = "init"]>>
    /\ UNCHANGED <<driver, caller, fibonacci, fibs, map_annots, dyn_annots,
                   not_recursive, refs, stack, sub_fibs, sub_stack, call, last,
                   outputs, timed, writes, sub_hist>>

\* The guard of line 158 (if n > 0).
SetsOne(n) == n > 0

\* Lines 158-159: if n > 0: fibs[1] = 1.  Then the loop starts at i = 2.
DynInit ==
    /\ dyn # <<>>
    /\ dyn[1].pc = "init"
    /\ LET fr == dyn[1]
       IN  dyn' = <<IF SetsOne(fr.n)
                    THEN [fr EXCEPT !.fibs = [fr.fibs EXCEPT ![1] = One64],
                                    !.wlog = Append(fr.wlog, 1),
                                    !.pc = "loop", !.i = 2]
                    ELSE [fr EXCEPT !.pc = "loop", !.i = 2]>>
    /\ UNCHANGED <<driver, caller, fibonacci, fibs, map_annots, dyn_annots,
                   not_recursive, refs, stack, sub_fibs, sub_stack, call, last,
                   outputs, timed, writes, sub_hist>>

\* (a variant that adds fibs[i-1] to itself)
DynSumSame(buf, i) == Add64(buf[i - 1], buf[i - 1])
\* Line 161: the value stored at index i.
DynSum(buf, i) == Add64(buf[i - 1], buf[i - 2])

\* Lines 160-161, one iteration: fibs[i] = fibs[i-1] + fibs[i-2].
DynLoop ==
    /\ dyn # <<>>
    /\ dyn[1].pc = "loop"
    /\ dyn[1].i <= dyn[1].n
    /\ LET fr == dyn[1]
       IN  dyn' = <<[fr EXCEPT !.fibs = [fr.fibs EXCEPT ![fr.i] = DynSum(fr.fibs, fr.i)],
                               !.rlog = fr.rlog \cup {fr.i - 1, fr.i - 2},
                               !.wlog = Append(fr.wlog, fr.i),
                               !.i = fr.i + 1]>>
    /\ UNCHANGED <<driver, caller, fibonacci, fibs, map_annots, dyn_annots,
                   not_recursive, refs, stack, sub_fibs, sub_stack, call, last,
                   outputs, timed, writes, sub_hist>>

\* Line 160: range(2, n + 1) is exhausted.
DynLoopEnd ==
    /\ dyn # <<>>
    /\ dyn[1].pc = "loop"
    /\ dyn[1].i > dyn[1].n
    /\ dyn' = <<[dyn[1] EXCEPT !.pc = "track"]>>
    /\ UNCHANGED <<driver, caller, fibonacci, fibs, map_annots, dyn_annots,
                   not_recursive, refs, stack, sub_fibs, sub_stack, call, last,
                   outputs, timed, writes, sub_hist>>

\* Lines 162-164: if track, append a value annotation of fibs; return fibs[n].
DynTrack ==
    /\ dyn # <<>>
    /\ dyn[1].pc = "track"
    /\ LET fr == dyn[1]
       IN  /\ dyn_annots' = IF fr.track
                            THEN Append(dyn_annots, Value(fr.fibs, "dyn_array"))
                            ELSE dyn_annots
           /\ call' = [call EXCEPT !.status = "returned", !.ret = fr.fibs[fr.n]]
    /\ dyn' = <<>>
    /\ UNCHANGED <<driver, caller, fibonacci, fibs, map_annots, not_recursive, refs,
                   stack, sub_fibs, sub_stack, last, outputs, timed, writes,
                   sub_hist>>

\* ------------------------------------------------------------ callers
\* What stays as it is when a caller starts a call.
CallFrame ==
    UNCHANGED <<driver, fibonacci, fibs, map_annots, dyn_annots, not_recursive, refs,
                sub_fibs, last, outputs, timed, writes, sub_hist>>
\* What stays as it is when a caller takes the value a call returned.
ResumeFrame ==
    UNCHANGED <<driver, fibonacci, fibs, map_annots, dyn_annots, not_recursive, refs,
                stack, dyn, sub_fibs, sub_stack, writes, sub_hist>>

\* A free caller of the reference hash-map fibonacci: any argument, tracked or
\* not.  Every call is then repeated on the submission's function.
FreeCall ==
    /\ driver = "calls"
    /\ caller.book = "ref"
    /\ \E n \in 0..MaxN, track \in BOOLEAN : RefCall(n, track)
    /\ UNCHANGED caller
    /\ CallFrame

\* A caller that asks for 0, 1, 2, ... in this order, starting with an empty
\* dict, and tallies the activations of fibonacci its calls cause.
SweepCall ==
    /\ driver = "sweep"
    /\ caller.book = "ref"
    /\ caller.n <= MaxSweep
    /\ \E track \in BOOLEAN : RefCall(caller.n, track)
    /\ UNCHANGED caller
    /\ CallFrame

\* The same argument, given to the submission's fibonacci.
SubmissionCall ==
    /\ driver \in {"calls", "sweep"}
    /\ caller.book = "sub"
    /\ StartCall("sub", last.map.n, FALSE)
    /\ UNCHANGED caller
    /\ CallFrame

FreeResume ==
    /\ driver \in {"calls", "sweep"}
    /\ EndCall
    /\ caller' =
          IF call.impl = "map"
          THEN [caller EXCEPT !.book = "sub",
                              !.total = IF driver = "sweep"
                                        THEN caller.total + 1 + call.nested
                                        ELSE caller.total]
          ELSE [caller EXCEPT !.book = "ref",
                              !.n = IF driver = "sweep" THEN caller.n + 1 ELSE caller.n]
    /\ UNCHANGED <<outputs, timed>>
    /\ ResumeFrame

\* A free caller of the dynamic-programming fibonacci.
DynCall ==
    /\ driver = "dyn"
    /\ \E n \in 0..MaxN, track \in BOOLEAN :
          /\ track => Len(dyn_annots) < MaxAnnots
          /\ RefCall(n, track)
    /\ UNCHANGED caller
    /\ CallFrame

\* One call of the dynamic-programming fibonacci with an argument of any size.
WideCall ==
    /\ driver = "wide"
    /\ caller.n = 0
    /\ \E n \in 0..MaxWide, track \in BOOLEAN : RefCall(n, track)
    /\ UNCHANGED caller
    /\ CallFrame

\* A few calls fibonacci(n) of the reference hash-map function with arguments
\* anywhere in the range of the timing loop.
RangeCall ==
    /\ driver = "range"
    /\ caller.n < MaxCalls
    /\ \E n \in 0..(TimeTerms - 1) : RefCall(n, TrackDefault)
    /\ UNCHANGED caller
    /\ CallFrame

\* These callers count the calls they have made, where that limits them.
CallResume ==
    /\ driver \in {"dyn", "wide", "range"}
    /\ EndCall
    /\ caller' = [caller EXCEPT !.n = IF driver = "dyn" THEN caller.n ELSE caller.n + 1]
    /\ UNCHANGED <<outputs, timed>>
    /\ ResumeFrame

\* ------------------------------------------------------ the notebooks' cells
\* The cells that loop over range(terms) calling fibonacci: the reference
\* notebook's cells 3, 4 (hash map) and 7, 8 (dynamic programming), and the
\* submission's third and fourth code cells.  The print loops call
\* fibonacci(n); the timing loops of the reference call fibonacci(n, track=False).
LoopCells ==
    {[book |-> "ref", cell |-> 3, terms |-> PrintTerms, track |-> TrackDefault, out |-> "ref3"],
     [book |-> "ref", cell |-> 4, terms |-> TimeTerms, track |-> FALSE, out |-> ""],
     [book |-> "ref", cell |-> 7, terms |-> PrintTerms, track |-> TrackDefault, out |-> "ref7"],
     [book |-> "ref", cell |-> 8, terms |-> TimeTerms, track |-> FALSE, out |-> ""],
     [book |-> "sub", cell |-> 3, terms |-> PrintTerms, track |-> FALSE, out |-> "sub3"],
     [book |-> "sub", cell |-> 4, terms |-> TimeTerms, track |-> FALSE, out |-> ""]}
Here(c) == driver = "notebook" /\ caller.book = c.book /\ caller.cell = c.cell
NextCell == [caller EXCEPT !.cell = caller.cell + 1, !.n = 0]

\* What print shows for a returned value.
Shown(c) == IF c.impl = "dyn" THEN Int64ToInt(c.ret) ELSE c.ret

\* for n in range(terms): the call of the next iteration.
LoopCall ==
    /\ \E c \in LoopCells :
          /\ Here(c)
          /\ caller.n < c.terms
          /\ IF c.book = "ref" THEN RefCall(caller.n, c.track)
             ELSE StartCall("sub", caller.n, FALSE)
    /\ UNCHANGED caller
    /\ CallFrame

\* print(fibonacci(n), end=" ").
LoopPrint ==
    /\ \E c \in LoopCells :
          /\ Here(c)
          /\ c.out # ""
          /\ EndCall
          /\ outputs' = [outputs EXCEPT ![c.out] = Append(@, Shown(call))]
    /\ caller' = [caller EXCEPT !.n = caller.n + 1]
    /\ UNCHANGED timed
    /\ ResumeFrame

\* The end of `with pybryt.check_time_complexity("fib_runtime", n)`.
LoopTimed ==
    /\ \E c \in LoopCells :
          /\ Here(c)
          /\ c.out = ""
          /\ EndCall
    /\ timed' = Append(timed, <<"fib_runtime", caller.n>>)
    /\ caller' = [caller EXCEPT !.n = caller.n + 1]
    /\ UNCHANGED outputs
    /\ ResumeFrame

\* range(terms) is exhausted: the cell is done.
LoopEnd ==
    /\ \E c \in LoopCells :
          /\ Here(c)
          /\ caller.n = c.terms
    /\ call.status = "idle"
    /\ caller' = NextCell
    /\ UNCHANGED <<driver, fibonacci, fibs, map_annots, dyn_annots, not_recursive, refs,
                   stack, dyn, sub_fibs, sub_stack, call, last, outputs, timed, writes,
                   sub_hist>>

\* Reference cell 1: map_annots = []; dyn_annots = [].
RefCell1 ==
    /\ Here([book |-> "ref", cell |-> 1])
    /\ map_annots' = <<>>
    /\ dyn_annots' = <<>>
    /\ caller' = NextCell
    /\ UNCHANGED <<driver, fibonacci, fibs, not_recursive, refs, stack, dyn, sub_fibs,
                   sub_stack, call, last, outputs, timed, writes, sub_hist>>

\* Reference cell 2: fibs = {}; def fibonacci (hash map).
RefCell2 ==
    /\ Here([book |-> "ref", cell |-> 2])
    /\ fibs' = EmptyDict
    /\ fibonacci' = "hash_map"
    /\ caller' = NextCell
    /\ UNCHANGED <<driver, map_annots, dyn_annots, not_recursive, refs, stack, dyn,
                   sub_fibs, sub_stack, call, last, outputs, timed, writes, sub_hist>>

\* Reference cell 5: map_annots.append(pybryt.TimeComplexity(...)).
RefCell5 ==
    /\ Here([book |-> "ref", cell |-> 5])
    /\ map_annots' = Append(map_annots, TimeComplexity("fib_runtime"))
    /\ caller' = NextCell
    /\ UNCHANGED <<driver, fibonacci, fibs, dyn_annots, not_recursive, refs, stack, dyn,
                   sub_fibs, sub_stack, call, last, outputs, timed, writes, sub_hist>>

\* Reference cell 6: def fibonacci (dynamic programming) rebinds the name.
RefCell6 ==
    /\ Here([book |-> "ref", cell |-> 6])
    /\ fibonacci' = "dynamic"
    /\ caller' = NextCell
    /\ UNCHANGED <<driver, fibs, map_annots, dyn_annots, not_recursive, refs, stack, dyn,
                   sub_fibs, sub_stack, call, last, outputs, timed, writes, sub_hist>>

\* Reference cell 9: dyn_annots.append(pybryt.TimeComplexity(...)).
RefCell9 ==
    /\ Here([book |-> "ref", cell |-> 9])
    /\ dyn_annots' = Append(dyn_annots, TimeComplexity("fib_runtime"))
    /\ caller' = NextCell
    /\ UNCHANGED <<driver, fibonacci, fibs, map_annots, not_recursive, refs, stack, dyn,
                   sub_fibs, sub_stack, call, last, outputs, timed, writes, sub_hist>>

\* Reference cell 10: len(dyn_annots).
RefCell10 ==
    /\ Here([book |-> "ref", cell |-> 10])
    /\ outputs' = [outputs EXCEPT !.ref10 = <<Len(dyn_annots)>>]
    /\ caller' = NextCell
    /\ UNCHANGED <<driver, fibonacci, fibs, map_annots, dyn_annots, not_recursive, refs,
                   stack, dyn, sub_fibs, sub_stack, call, last, timed, writes, sub_hist>>

\* xs[-2] of a list.
Penultimate(xs) == xs[Len(xs) - 1]

\* Reference cell 11: not_recursive = map_annots[-2] | dyn_annots[-2].
RefCell11 ==
    /\ Here([book |-> "ref", cell |-> 11])
    /\ Len(map_annots) >= 2
    /\ Len(dyn_annots) >= 2
    /\ not_recursive' = <<OrAnnotation(Penultimate(map_annots), Penultimate(dyn_annots))>>
    /\ caller' = NextCell
    /\ UNCHANGED <<driver, fibonacci, fibs, map_annots, dyn_annots, refs, stack, dyn,
                   sub_fibs, sub_stack, call, last, outputs, timed, writes, sub_hist>>

\* Reference cell 12: the three reference implementations.  The submission
\* notebook is run next.
RefCell12 ==
    /\ Here([book |-> "ref", cell |-> 12])
    /\ refs' = <<ReferenceImplementation("fibonacci_map", map_annots),
                 ReferenceImplementation("fibonacci_dyn", dyn_annots),
                 ReferenceImplementation("fibonacci_no_recurse", not_recursive)>>
    /\ caller' = [caller EXCEPT !.book = "sub", !.cell = 1, !.n = 0]
    /\ UNCHANGED <<driver, fibonacci, fibs, map_annots, dyn_annots, not_recursive, stack,
                   dyn, sub_fibs, sub_stack, call, last, outputs, timed, writes,
                   sub_hist>>

\* Submission cell 1: import pybryt.
SubCell1 ==
    /\ Here([book |-> "sub", cell |-> 1])
    /\ caller' = NextCell
    /\ UNCHANGED <<driver, fibonacci, fibs, map_annots, dyn_annots, not_recursive, refs,
                   stack, dyn, sub_fibs, sub_stack, call, last, outputs, timed, writes,
                   sub_hist>>

\* Submission cell 2: fibs = {}; def fibonacci.
SubCell2 ==
    /\ Here([book |-> "sub", cell |-> 2])
    /\ sub_fibs' = EmptyDict
    /\ sub_hist' = <<EmptyDict>>
    /\ caller' = NextCell
    /\ UNCHANGED <<driver, fibonacci, fibs, map_annots, dyn_annots, not_recursive, refs,
                   stack, dyn, sub_stack, call, last, outputs, timed, writes>>

\* ------------------------------------------------------- specification
Next ==
    \/ MapEntry \/ MapSecond \/ MapStore \/ MapTrack
    \/ SubEntry \/ SubSecond \/ SubStore
    \/ DynAlloc \/ DynInit \/ DynLoop \/ DynLoopEnd \/ DynTrack
    \/ FreeCall \/ SweepCall \/ SubmissionCall \/ FreeResume
    \/ DynCall \/ WideCall \/ RangeCall \/ CallResume
    \/ LoopCall \/ LoopPrint \/ LoopTimed \/ LoopEnd
    \/ RefCell1 \/ RefCell2 \/ RefCell5 \/ RefCell6 \/ RefCell9 \/ RefCell10
    \/ RefCell11 \/ RefCell12 \/ SubCell1 \/ SubCell2

Spec == Init /\ [][Next]_vars

\* --------------------------------------------------------- properties
Running == call.status \in {"running", "returned"}
Returned_(impl) == call.status = "returned" /\ call.impl = impl
\* The reference notebook's cell c has been run to its end.
RefPast(c) == driver = "notebook" /\ (caller.book = "sub" \/ caller.cell > c)
IsPrefix(xs, ys) == Len(xs) <= Len(ys) /\ xs = SubSeq(ys, 1, Len(xs))
\* The first ten Fibonacci numbers, as the print loops show them.
FirstTen == <<0, 1, 1, 2, 3, 5, 8, 13, 21, 34>>

\* Every key of dict d is 2 or more and is mapped to its Fibonacci number.
DictSound(d) ==
    /\ 0 \notin DOMAIN d
    /\ 1 \notin DOMAIN d
    /\ \A i \in DOMAIN d : d[i] = Fib(i)
\* Dict d still holds every entry of d0, unchanged.
Keeps(d, d0) == \A i \in DOMAIN d0 : i \in DOMAIN d /\ d[i] = d0[i]
\* Top-level calls the sweeping caller has completed on the reference.
SweepDone == caller.n + (IF caller.book = "sub" THEN 1 ELSE 0)
\* Annotations and what they captured.
IsValue(a) == a.kind = "value"
DictComplete(d) ==
    \E m \in DOMAIN d : DOMAIN d = 2..m /\ \A i \in DOMAIN d : d[i] = Fib(i)
BufferComplete(b) ==
    \E m \in DOMAIN b :
        /\ DOMAIN b = 0..m
        /\ \A j \in DOMAIN b : Int64ToBig(b[j]) = FibBig(j)
        /\ \A j \in DOMAIN b : j >= 1 => b[j] # Zero64
IsDictTo(d, m) == DOMAIN d = 2..m /\ \A i \in 2..m : d[i] = Fib(i)
IsBufferTo(b, m) == DOMAIN b = 0..m /\ \A j \in 0..m : Int64ToBig(b[j]) = FibBig(j)
\* The elements of a sequence.
Range(xs) == {xs[k] : k \in 1..Len(xs)}
\* xs can be had from ys by leaving elements out.
RECURSIVE IsSubsequence(_, _)
IsSubsequence(xs, ys) ==
    IF xs = <<>> THEN TRUE
    ELSE IF ys = <<>> THEN FALSE
    ELSE IF Head(xs) = Head(ys) THEN IsSubsequence(Tail(xs), Tail(ys))
    ELSE IsSubsequence(xs, Tail(ys))
Captured ==
    LET vs == SelectSeq(map_annots, IsValue)
    IN  [k \in 1..Len(vs) |-> vs[k].value]
SubPast(c) == driver = "notebook" /\ caller.book = "sub" /\ caller.cell > c

\* C1: for every n in 0..29, whatever earlier calls have left in the dict, the
\* hash-map fibonacci(n) and the dynamic-programming fibonacci(n) return the
\* canonical F(n); the print loops over range(10) show 0 1 1 2 3 5 8 13 21 34;
\* the dynamic-programming fibonacci(10) is 55.
C1_ReturnsFibonacci ==
    /\ (Returned_("map") /\ call.n < TimeTerms) => call.ret = Fib(call.n)
    /\ (Returned_("dyn") /\ call.n < TimeTerms) =>
          Int64ToBig(call.ret) = FibBig(call.n)
    /\ (Returned_("dyn") /\ call.n = 10) => Int64ToInt(call.ret) = 55
    /\ driver = "notebook" =>
          /\ IsPrefix(outputs.ref3, FirstTen)
          /\ IsPrefix(outputs.ref7, FirstTen)
          /\ RefPast(3) => outputs.ref3 = FirstTen
          /\ RefPast(7) => outputs.ref7 = FirstTen
\* A call fibonacci(29) that found 2..12 cached by an earlier call has returned.
C1_Witness ==
    /\ driver = "range"
    /\ Returned_("map")
    /\ call.n = 29
    /\ DOMAIN call.fibs0 = 2..12
    /\ call.ret = 514229

\* C2: when a call of a hash-map fibonacci(n) has returned, the dict holds
\* exactly the keys it held before and 2..n; every key i it ever holds is
\* mapped to F(i); no step of a call removes or changes an entry; 0 and 1
\* are never keys.  For the reference's dict and for the submission's.
C2_CacheGrowth ==
    /\ DictSound(fibs)
    /\ DictSound(sub_fibs)
    /\ (Running /\ call.impl = "map") => Keeps(fibs, call.fibs0)
    /\ (Running /\ call.impl = "sub") => Keeps(sub_fibs, call.fibs0)
    /\ Returned_("map") => DOMAIN fibs = (DOMAIN call.fibs0) \cup (2..call.n)
    /\ Returned_("sub") => DOMAIN sub_fibs = (DOMAIN call.fibs0) \cup (2..call.n)
\* fibonacci(5) has returned, having found 2 and 3 cached and added 4 and 5.
C2_Witness ==
    /\ Returned_("map")
    /\ call.n = 5
    /\ DOMAIN call.fibs0 = {2, 3}
    /\ DOMAIN fibs = {2, 3, 4, 5}
    /\ fibs[5] = 5

\* C3: a call of the hash-map fibonacci(n) that directly follows a call with
\* the same n returns the same value, leaves the dict as the first call left
\* it and makes no nested call; and no call changes an entry it found.
C3_Idempotent ==
    /\ (Returned_("map") /\ call.again) =>
          /\ call.ret = last.map.ret
          /\ fibs = call.fibs0
          /\ call.nested = 0
    /\ (Running /\ call.impl = "map") => Keeps(fibs, call.fibs0)
\* fibonacci(4) has returned a second time; the first call made nested calls.
C3_Witness ==
    /\ Returned_("map")
    /\ call.again
    /\ call.n = 4
    /\ last.map.nested > 0
    /\ call.nested = 0
    /\ call.ret = 3

\* C4: for every n >= 0 the dynamic-programming fibonacci(n) returns F(n).
C4_DynReturnsFibonacci ==
    Returned_("dyn") => Int64ToBig(call.ret) = FibBig(call.n)

\* C5: when fibonacci(0), fibonacci(1), ..., fibonacci(k) are called in this
\* order from an empty dict, every key in 2..k is assigned exactly once, every
\* top-level call makes at most two nested calls and none of those makes a
\* call of its own, and at most 3*(k+1) activations happen in all.
C5_LinearWork ==
    driver = "sweep" =>
        /\ \A i \in DOMAIN writes : writes[i] = 1
        /\ DOMAIN writes \subseteq 2..caller.n
        /\ (call.status = "idle" /\ caller.book = "ref") =>
              DOMAIN writes = 2..(caller.n - 1)
        /\ (Running /\ call.impl = "map") => (call.nested <= 2 /\ call.depth <= 1)
        /\ caller.total <= 3 * SweepDone
\* fibonacci(0) .. fibonacci(5) have been called in order: 14 activations.
C5_Witness ==
    /\ driver = "sweep"
    /\ call.status = "idle"
    /\ caller.book = "ref"
    /\ caller.n = 6
    /\ caller.total = 14
    /\ DOMAIN writes = 2..5

\* C6: a call fibonacci(n, track=False) appends no value annotation, nested
\* calls included: of the hash-map function to map_annots, of the
\* dynamic-programming function to dyn_annots.
C6_UntrackedAppendsNothing ==
    /\ (Running /\ call.impl = "map" /\ ~call.track) => map_annots = call.annots0
    /\ (Running /\ call.impl = "dyn" /\ ~call.track) => dyn_annots = call.annots0

\* C7: a value annotation is made of a completed state.  Hash map: the
\* activation for n reaches its `if track` only with fibs[n] = F(n) stored,
\* and every captured dict has keys 2..m, each mapped to its Fibonacci
\* number.  Dynamic programming: every captured buffer is [F(0), ..., F(m)].
C7_CaptureComplete ==
    /\ \A k \in 1..Len(stack) :
          stack[k].pc = "track" =>
              /\ stack[k].n \in DOMAIN fibs
              /\ fibs[stack[k].n] = Fib(stack[k].n)
              /\ 2..stack[k].n \subseteq DOMAIN fibs
    /\ \A k \in 1..Len(map_annots) :
          IsValue(map_annots[k]) => DictComplete(map_annots[k].value)
    /\ \A k \in 1..Len(dyn_annots) :
          IsValue(dyn_annots[k]) => BufferComplete(dyn_annots[k].value)

\* C8: once the reference notebook's cells 1-9 have run, dyn_annots is ten
\* value annotations (the buffers of n = 0..9, in this order) and then one
\* time-complexity annotation; map_annots is eight value annotations (the
\* dicts with keys 2..2, 2..3, ..., 2..9) and then one time-complexity
\* annotation; cell 10 shows 11; cell 11 combines the two snapshots of n = 9.
C8_AnnotationLists ==
    /\ RefPast(9) =>
          /\ Len(dyn_annots) = 11
          /\ \A k \in 1..10 :
                IsValue(dyn_annots[k]) /\ IsBufferTo(dyn_annots[k].value, k - 1)
          /\ dyn_annots[11].kind = "time_complexity"
          /\ Len(map_annots) = 9
          /\ \A k \in 1..8 :
                IsValue(map_annots[k]) /\ IsDictTo(map_annots[k].value, k + 1)
          /\ map_annots[9].kind = "time_complexity"
          /\ IsValue(Penultimate(map_annots))
          /\ IsDictTo(Penultimate(map_annots).value, 9)
          /\ IsValue(Penultimate(dyn_annots))
          /\ IsBufferTo(Penultimate(dyn_annots).value, 9)
    /\ RefPast(10) => outputs.ref10 = <<11>>
    /\ RefPast(11) =>
          not_recursive = <<OrAnnotation(map_annots[8], dyn_annots[10])>>
\* The reference notebook has run to its end.
C8_Witness ==
    /\ RefPast(12)
    /\ Len(refs) = 3
    /\ refs[1].annotations = map_annots
    /\ Len(map_annots) = 9
    /\ outputs.ref10 = <<11>>

\* C9: the dynamic-programming fibonacci(n), for every n >= 0: the buffer has
\* length n+1 and starts all zero; index 1 is written only when n > 0;
\* indices 2..n are written once each in increasing order; every index read
\* or written is in 0..n; before the write at index i every j < i holds F(j)
\* and every j >= i holds 0.
C9_FillDiscipline ==
    dyn # <<>> =>
        LET fr == dyn[1]
        IN  /\ fr.pc # "alloc" => DOMAIN fr.fibs = 0..fr.n
            /\ fr.pc = "init" => \A j \in 0..fr.n : fr.fibs[j] = Zero64
            /\ fr.n = 0 => fr.wlog = <<>>
            /\ \A k \in 1..Len(fr.wlog) : fr.wlog[k] = k
            /\ fr.pc = "track" => Len(fr.wlog) = fr.n
            /\ (Range(fr.wlog) \cup fr.rlog) \subseteq 0..fr.n
            /\ (fr.pc = "loop" /\ fr.i <= fr.n) =>
                  /\ \A j \in 0..(fr.i - 1) : Int64ToBig(fr.fibs[j]) = FibBig(j)
                  /\ \A j \in fr.i..fr.n : fr.fibs[j] = Zero64

\* C10: driven by the same top-level calls from empty dicts, the submission's
\* fibonacci returns what the reference's hash-map fibonacci returns and the
\* two dicts are equal after every call; and over the notebooks' calls
\* (range(10), then range(30)) the dicts captured by the reference's value
\* annotations, keys 2..2 up to 2..9, are values the submission's dict takes,
\* in the same order.
C10_SubmissionMatches ==
    /\ (driver \in {"calls", "sweep"} /\ Returned_("sub")) =>
          /\ call.n = last.map.n
          /\ call.ret = last.map.ret
          /\ sub_fibs = fibs
    /\ SubPast(3) => outputs.sub3 = outputs.ref3
    /\ SubPast(4) =>
          /\ Len(Captured) = 8
          /\ \A k \in 1..8 : DOMAIN Captured[k] = 2..(k + 1)
          /\ IsSubsequence(Captured, sub_hist)
          /\ sub_fibs = fibs
\* Both notebooks have run to their ends.
C10_Witness ==
    /\ SubPast(4)
    /\ Len(Captured) = 8
    /\ Len(sub_hist) = 29
    /\ DOMAIN sub_fibs = 2..29

====
